---- MODULE Spec2Model ----
(***************************************************************************)
(* A model of the memory engine of JarvisAI:                               *)
(* src/jarvis-core/memory/enhanced_memory_manager.py, class                *)
(* EnhancedMemoryManager, with the calls its facades make on it:           *)
(* SessionMemoryManager (session_memory.py) and AgentMemoryManager         *)
(* (agent_memory.py).                                                      *)
(*                                                                         *)
(* The durable store is the sqlite file (tables memories, mem0_mappings),  *)
(* the in-process state is memory_hashes and memory_cache, the delegate is *)
(* the Mem0 client.  Every coroutine is cut at its awaits that reach the   *)
(* store: between two such awaits the asyncio event loop runs nothing      *)
(* else, so the code between them is one step.                             *)
(*                                                                         *)
(* Scope of the inputs.  Contents and queries are strings of one-letter    *)
(* lower-case words separated by one blank, written here as the sequence   *)
(* of their words; on such strings Python's `in`, sqlite's LIKE '%q%' and  *)
(* str.split() are what Contains and WordSet compute.  The sentence        *)
(* encoder is absent (VECTOR_AVAILABLE = False, lines 29-35), so no        *)
(* embedding is stored and _vector_search is never entered.  The local     *)
(* clock and the store's UTC clock are taken to agree.                     *)
(***************************************************************************)
EXTENDS Integers, Sequences, FiniteSets, TLC

VARIABLES
    memories,        \* table memories: id -> row
    mem0_mappings,   \* table mem0_mappings: set of [local, mem0]
    mem0_client,     \* TRUE when the Mem0 client is configured
    mem0_store,      \* what the delegate holds: set of [id, owner, text]
    memory_hashes,   \* self.memory_hashes
    memory_cache,    \* self.memory_cache: kind -> ordered dict, as a sequence
    now,             \* the clock
    nextId,          \* the next uuid4 to be drawn
    pc,              \* where each task's coroutine stands
    loc,             \* each task's arguments, locals and returned value
    current_session_id,  \* self.current_session_id: the last session id drawn
    active_sessions, \* SessionMemoryManager.active_sessions: id -> user_id
    session_memories,  \* self.session_memories: the buffer of the current session
    session_table,   \* the rows of the table session_memories
    summary_tasks,   \* the _save_session_summary tasks created and not yet run
    nextMsg          \* the next uuid4 of a session message

vars == <<memories, mem0_mappings, mem0_client, mem0_store, memory_hashes,
          memory_cache, now, nextId, pc, loc, current_session_id, active_sessions,
          session_memories, session_table, summary_tasks, nextMsg>>

\* the state of the session facade
session_vars == <<current_session_id, active_sessions, session_memories,
                  session_table, summary_tasks, nextMsg>>

-----------------------------------------------------------------------------
(* Bounds of the model *)

\* uuid4 values drawn in one behaviour
MaxIds == 3
\* the clock runs from 0 to MaxTime
MaxTime == 4
\* clock ticks in one calendar day
DayLen == 2
\* access_count is not driven above MaxAccess
MaxAccess == 2
\* session ids drawn in a run
MaxSessions == 3
\* self.max_cache_size, 1000 in the source (line 110), scaled down
max_cache_size == 2
\* session messages saved in one behaviour
MaxMsgs == 4
\* the length the session buffer is cut to, 100 in the source (lines 866-867),
\* scaled down
max_session_buffer == 2
\* the days a session message is kept, 30 in the source (line 1120), scaled down
session_retention_days == 1

-----------------------------------------------------------------------------
(* Program constants *)

\* self.importance_threshold = 0.8, in hundredths
importance_threshold == 80
\* the importance given to a delegate hit with no local row, 0.5
Mem0OnlyImportance == 50
\* Python's None where an id is expected
NoId == 0
\* expires_at IS NULL
NoExpiry == -1
\* importance: float = None
NoImportance == -1
\* expires_in_days: int = None
NoTtl == 0
\* current_session_id = None
NoSession == 0
\* expires_in_days of a session summary, line 821
SummaryTtl == 30

Tasks == {"t1", "t2"}
SeqTasks == {"t1"}

Owners == {"u1", "u2"}
\* MemoryType.USER, MemoryType.SESSION, MemoryType.AGENT, in the order of the
\* cache dict
KindOrder == <<"user", "session", "agent">>
Kinds == {KindOrder[i] : i \in 1..Len(KindOrder)}
Contents == {<<"a">>, <<"a", "b">>}
Queries == {<<"a">>, <<"b">>}
\* metadata documents: {} and {"type": "preference", "key": "theme"}
NoKey == ""
MetaDocs == {[type |-> "none", key |-> NoKey],
             [type |-> "preference", key |-> "theme"]}
Importances == {NoImportance, 90}
Ttls == {NoTtl, 1}
Limits == {1, 2}
\* relevance scores a delegate hit may carry, as <<numerator, denominator>>
DelegateScores == {<<0, 1>>, <<1, 1>>}

-----------------------------------------------------------------------------
(* Sequences *)

Range(s) == {s[i] : i \in 1..Len(s)}

Min2(a, b) == IF a < b THEN a ELSE b

Take(s, n) == SubSeq(s, 1, Min2(n, Len(s)))

\* the orders in which the elements of the finite set S can be listed
RECURSIVE Perms(_)
Perms(S) ==
    IF S = {} THEN {<<>>}
    ELSE UNION {{<<x>> \o p : p \in Perms(S \ {x})} : x \in S}

\* the sequences without repetition of at most n elements of S
Picks(S, n) == UNION {Perms(T) : T \in {U \in SUBSET S : Cardinality(U) <= n}}

-----------------------------------------------------------------------------
(* Text *)

\* query in content, on strings of one-letter words
Contains(content, query) ==
    \E i \in 0..(Len(content) - Len(query)) :
        \A j \in 1..Len(query) : content[i + j] = query[j]

\* important_keywords, line 245, each written in pinyin
ImportanceKeywords ==
    {"zhongyao", "guanjian", "mubiao", "jihua", "pianhao", "xihuan", "buxihuan"}

\* the characters of a word: a keyword has two, the last keyword three, any
\* other word is one letter
WordLen(w) ==
    IF w = "buxihuan" THEN 3 ELSE IF w \in ImportanceKeywords THEN 2 ELSE 1

RECURSIVE WordsLen(_)
WordsLen(content) ==
    IF content = <<>> THEN 0 ELSE WordLen(Head(content)) + WordsLen(Tail(content))

\* len(content): the words and the blanks between them
StrLen(content) ==
    IF content = <<>> THEN 0 ELSE WordsLen(content) + Len(content) - 1

WordSet(text) == Range(text)

\* _generate_content_hash: md5 of the content, taken as free of collisions
_generate_content_hash(content) == <<"md5", content>>

\* _calculate_text_similarity: Jaccard overlap of the word sets, as a fraction
_calculate_text_similarity(query, content) ==
    LET q == WordSet(query)
        c == WordSet(content)
    IN  IF q = {} \/ c = {} THEN <<0, 1>>
        ELSE <<Cardinality(q \cap c), Cardinality(q \cup c)>>

\* a/b < c/d
FracLess(x, y) == x[1] * y[2] < y[1] * x[2]

-----------------------------------------------------------------------------
(* Importance, in hundredths.  The sums are those of IEEE-754 doubles taken    *)
(* in the order of the code: 0.5 + 0.2 + 0.1 is 0.7999999999999999, written 79 *)

HasKeyword(content) == \E w \in WordSet(content) : w \in ImportanceKeywords

\* lines 230-249: the sum before the clamp
ImportanceSum(content, metadata) ==
    LET long == StrLen(content) > 100
        kw == HasKeyword(content)
        t == metadata.type
        sum == CASE t = "preference" ->
                      IF long THEN (IF kw THEN 99 ELSE 89)
                      ELSE (IF kw THEN 90 ELSE 80)
                 [] t = "goal" ->
                      IF long THEN (IF kw THEN 110 ELSE 100)
                      ELSE (IF kw THEN 100 ELSE 90)
                 [] t = "relationship" ->
                      IF long THEN (IF kw THEN 90 ELSE 80)
                      ELSE (IF kw THEN 79 ELSE 70)
                 [] OTHER ->
                      IF long THEN (IF kw THEN 70 ELSE 60)
                      ELSE (IF kw THEN 60 ELSE 50)
    IN  sum

\* the sum, returned as it is
_calculate_importance_unclamped(content, metadata) == ImportanceSum(content, metadata)

\* line 251: min(importance, 1.0)
_calculate_importance(content, metadata) == Min2(ImportanceSum(content, metadata), 100)

-----------------------------------------------------------------------------
(* Time.  datetime.isoformat() writes 'YYYY-MM-DDTHH:MM:SS.ffffff', sqlite's  *)
(* CURRENT_TIMESTAMP is 'YYYY-MM-DD HH:MM:SS', and the store compares the two *)
(* as text: the date first, then 'T' against ' '.                             *)

Day(t) == t \div DayLen
TimeOfDay(t) == t % DayLen

Isoformat(t) == [date |-> Day(t), sep |-> "T", time |-> TimeOfDay(t)]
CURRENT_TIMESTAMP == [date |-> Day(now), sep |-> " ", time |-> TimeOfDay(now)]

SepRank(c) == IF c = " " THEN 0 ELSE 1

TextLess(x, y) ==
    \/ x.date < y.date
    \/ x.date = y.date /\ SepRank(x.sep) < SepRank(y.sep)
    \/ x.date = y.date /\ x.sep = y.sep /\ x.time < y.time

\* expires_at IS NULL OR expires_at > CURRENT_TIMESTAMP
SqlLive(row) ==
    row.expires_at = NoExpiry \/ TextLess(CURRENT_TIMESTAMP, Isoformat(row.expires_at))

\* expires_at IS NOT NULL AND expires_at < CURRENT_TIMESTAMP
SqlExpired(row) ==
    row.expires_at # NoExpiry /\ TextLess(Isoformat(row.expires_at), CURRENT_TIMESTAMP)

\* the record's expires_at is in the past at instant t
Expired(row, t) == row.expires_at # NoExpiry /\ row.expires_at < t

-----------------------------------------------------------------------------
(* The store *)

Ids == DOMAIN memories

RowsWithHash(h) == {i \in Ids : memories[i].hash = h}

\* a store without the constraint
UniqueViolatedNever(h) == FALSE

\* hash TEXT UNIQUE, line 165: the insert fails when a row holds the hash
UniqueViolated(h) == RowsWithHash(h) # {}

Extend(f, k, v) == [x \in DOMAIN f \cup {k} |-> IF x = k THEN v ELSE f[x]]

\* the id the delegate gives to the mirror of local record i
Mem0Id(i) == 0 - i

-----------------------------------------------------------------------------
(* The hot cache: each partition is a dict, kept in insertion order *)

CacheKey(metadata, id) ==
    IF metadata.key # NoKey THEN [k |-> metadata.key, id |-> NoId]
    ELSE [k |-> NoKey, id |-> id]

Remove(s, i) == SubSeq(s, 1, i - 1) \o SubSeq(s, i + 1, Len(s))

\* d[key] = entry: in place when the key is there, at the end when it is not
DictPut(d, entry) ==
    IF \E i \in 1..Len(d) : d[i].key = entry.key
    THEN [i \in 1..Len(d) |-> IF d[i].key = entry.key THEN entry ELSE d[i]]
    ELSE Append(d, entry)

\* min(items, key=importance): the first of the least important
LeastImportant(d) ==
    CHOOSE i \in 1..Len(d) :
        /\ \A j \in 1..Len(d) : d[i].importance <= d[j].importance
        /\ \A j \in 1..(i - 1) : d[j].importance > d[i].importance

CacheEntry(id, content, metadata, importance) ==
    [key |-> CacheKey(metadata, id), id |-> id, content |-> content,
     metadata |-> metadata, importance |-> importance, cached_at |-> now]

_add_to_cache(cache, kind, id, content, metadata, importance) ==
    LET d == cache[kind]
        kept == IF Len(d) >= max_cache_size
                THEN (IF Len(d) = 0 THEN d ELSE Remove(d, LeastImportant(d)))
                ELSE d
    IN  IF Len(d) >= max_cache_size /\ Len(d) = 0
        THEN cache
        ELSE [cache EXCEPT ![kind] =
                 DictPut(kept, CacheEntry(id, content, metadata, importance))]

EmptyCache == [k \in Kinds |-> <<>>]

\* ORDER BY importance DESC, access_count DESC: ties come in any order
DbOrders(S) ==
    {p \in Perms(S) :
        \A i \in 1..(Len(p) - 1) :
            \/ memories[p[i]].importance > memories[p[i + 1]].importance
            \/ /\ memories[p[i]].importance = memories[p[i + 1]].importance
               /\ memories[p[i]].access_count >= memories[p[i + 1]].access_count}

RECURSIVE LoadRows(_, _)
LoadRows(cache, ids) ==
    IF ids = <<>> THEN cache
    ELSE LET r == memories[Head(ids)]
         IN  LoadRows([cache EXCEPT ![r.memory_type] =
                          DictPut(@, CacheEntry(Head(ids), r.content, r.metadata,
                                                r.importance))],
                      Tail(ids))

\* a load that selects rows of any importance
LoadableAny == Ids

\* the rows _load_cache selects
Loadable == {i \in Ids : memories[i].importance >= importance_threshold}

-----------------------------------------------------------------------------
(* Tasks *)

NoMeta == [type |-> "none", key |-> NoKey]

\* what the caller holds of the call that has just returned
NoCall == [status |-> "none", ret |-> NoId, text |-> <<>>, owner |-> ""]

Summary(l) == [status |-> l.status, ret |-> l.ret, text |-> l.text, owner |-> l.owner]

\* status is "run" while the call is in progress, then "ok" (it returned ret,
\* results or answer) or "raise"; id is the uuid4 the call drew when it went on
\* to insert; pre is the id of the row that held the content when the call
\* began; prev is the save the caller awaited just before this one; target is
\* the id an update was given; failed says that the delegate's search raised,
\* and expect then holds the lists the search would return without the delegate;
\* deleted is deleted_counts["memories"] of a janitor run; op is the facade
\* method that made the call, session its session id, has_meta whether it was
\* given a metadata argument; skill is the skill_name a facade call was given
IdleLoc ==
    [status |-> "none", ret |-> NoId,
     kind |-> "", text |-> <<>>, metadata |-> NoMeta, importance |-> NoImportance,
     expires_at |-> NoExpiry, owner |-> "", hash |-> <<>>, id |-> NoId, pre |-> NoId,
     limit |-> 0, lim2 |-> 0,
     results |-> <<>>, early |-> FALSE, prev |-> NoCall,
     target |-> NoId, answer |-> FALSE, failed |-> FALSE, expect |-> {},
     deleted |-> 0, op |-> "", session |-> NoSession, has_meta |-> FALSE,
     skill |-> "", msg |-> NoId, role |-> "", count |-> 0]

Init ==
    /\ memories = <<>>
    /\ mem0_mappings = {}
    /\ mem0_client \in BOOLEAN
    /\ mem0_store = {}
    /\ memory_hashes = {}
    /\ memory_cache = EmptyCache
    /\ now = 0
    /\ nextId = 1
    /\ pc = [t \in Tasks |-> "idle"]
    /\ loc = [t \in Tasks |-> IdleLoc]
    /\ current_session_id = NoSession
    /\ active_sessions = <<>>
    /\ session_memories = <<>>
    /\ session_table = {}
    /\ summary_tasks = <<>>
    /\ nextMsg = 1

-----------------------------------------------------------------------------
(* save_memory *)

\* lines 264-292: up to the first await
SaveBegin(t, kind, content, metadata, importance, ttl, owner) ==
    /\ pc[t] \in {"idle", "save_done"}
    /\ LET h == _generate_content_hash(content)
           dup == h \in memory_hashes
           base == [IdleLoc EXCEPT !.status = "run", !.kind = kind,
                       !.text = content, !.metadata = metadata, !.owner = owner,
                       !.hash = h,
                       !.pre = IF RowsWithHash(h) = {} THEN NoId
                               ELSE CHOOSE i \in RowsWithHash(h) : TRUE,
                       !.prev = IF pc[t] = "save_done" THEN Summary(loc[t])
                                ELSE NoCall]
       IN  IF dup
           THEN /\ pc' = [pc EXCEPT ![t] = "save_lookup"]
                /\ loc' = [loc EXCEPT ![t] = base]
                /\ UNCHANGED nextId
           ELSE /\ nextId <= MaxIds
                /\ pc' = [pc EXCEPT ![t] = "save_insert"]
                /\ loc' = [loc EXCEPT ![t] =
                      [base EXCEPT
                          !.id = nextId,
                          !.importance =
                              IF importance = NoImportance
                              THEN _calculate_importance(content, metadata)
                              ELSE importance,
                          !.expires_at =
                              IF ttl # NoTtl THEN now + ttl * DayLen ELSE NoExpiry]]
                /\ nextId' = nextId + 1
    /\ UNCHANGED <<memories, mem0_mappings, mem0_client, mem0_store,
                   memory_hashes, memory_cache, now>>
    /\ UNCHANGED session_vars

\* _get_memory_id_by_hash, lines 354-363
_get_memory_id_by_hash(h) ==
    IF RowsWithHash(h) = {} THEN NoId ELSE CHOOSE i \in RowsWithHash(h) : TRUE

\* line 273
SaveLookup(t) ==
    /\ pc[t] = "save_lookup"
    /\ pc' = [pc EXCEPT ![t] = "save_done"]
    /\ loc' = [loc EXCEPT ![t].status = "ok",
                          ![t].ret = _get_memory_id_by_hash(loc[t].hash)]
    /\ UNCHANGED <<memories, mem0_mappings, mem0_client, mem0_store,
                   memory_hashes, memory_cache, now, nextId>>
    /\ UNCHANGED session_vars

NewRow(l) ==
    [memory_type |-> l.kind, content |-> l.text, metadata |-> l.metadata,
     importance |-> l.importance, access_count |-> 0, user_id |-> l.owner,
     hash |-> l.hash, expires_at |-> l.expires_at, carried |-> FALSE]

\* a save that registers the hash before it knows that the row is stored
SaveInsertHashFirst(t) ==
    /\ pc[t] = "save_insert"
    /\ memory_hashes' = memory_hashes \cup {loc[t].hash}
    /\ IF UniqueViolated(loc[t].hash)
       THEN /\ pc' = [pc EXCEPT ![t] = "save_done"]
            /\ loc' = [loc EXCEPT ![t].status = "raise"]
            /\ UNCHANGED memories
       ELSE /\ memories' = Extend(memories, loc[t].id, NewRow(loc[t]))
            /\ pc' = [pc EXCEPT ![t] = "save_mirror"]
            /\ UNCHANGED loc
    /\ UNCHANGED <<mem0_mappings, mem0_client, mem0_store, memory_cache, now, nextId>>
    /\ UNCHANGED session_vars

\* lines 293-309, and 350-352 when the store refuses the row
SaveInsert(t) ==
    /\ pc[t] = "save_insert"
    /\ IF UniqueViolated(loc[t].hash)
       THEN /\ pc' = [pc EXCEPT ![t] = "save_done"]
            /\ loc' = [loc EXCEPT ![t].status = "raise"]
            /\ UNCHANGED memories
       ELSE /\ memories' = Extend(memories, loc[t].id, NewRow(loc[t]))
            /\ pc' = [pc EXCEPT ![t] = "save_mirror"]
            /\ UNCHANGED loc
    /\ UNCHANGED <<mem0_mappings, mem0_client, mem0_store, memory_hashes,
                   memory_cache, now, nextId>>
    /\ UNCHANGED session_vars

\* a save that does not register the hash of what it stored
AdmitForgettingHash(t) ==
    /\ memory_hashes' = memory_hashes
    /\ memory_cache' =
          IF loc[t].importance >= importance_threshold
          THEN _add_to_cache(memory_cache, loc[t].kind, loc[t].id, loc[t].text,
                             loc[t].metadata, loc[t].importance)
          ELSE memory_cache
    /\ pc' = [pc EXCEPT ![t] = "save_done"]
    /\ loc' = [loc EXCEPT ![t].status = "ok", ![t].ret = loc[t].id]

\* lines 340-348
Admit(t) ==
    /\ memory_hashes' = memory_hashes \cup {loc[t].hash}
    /\ memory_cache' =
          IF loc[t].importance >= importance_threshold
          THEN _add_to_cache(memory_cache, loc[t].kind, loc[t].id, loc[t].text,
                             loc[t].metadata, loc[t].importance)
          ELSE memory_cache
    /\ pc' = [pc EXCEPT ![t] = "save_done"]
    /\ loc' = [loc EXCEPT ![t].status = "ok", ![t].ret = loc[t].id]

\* a save that lets a failure of the delegate reach its caller
SaveMirrorRaising(t) ==
    /\ pc[t] = "save_mirror"
    /\ \/ /\ mem0_client
          /\ mem0_store' = mem0_store \cup
                {[id |-> Mem0Id(loc[t].id), owner |-> loc[t].owner,
                  text |-> loc[t].text]}
          /\ mem0_mappings' = mem0_mappings \cup
                {[local |-> loc[t].id, mem0 |-> Mem0Id(loc[t].id)]}
          /\ pc' = [pc EXCEPT ![t] = "save_admit"]
          /\ UNCHANGED <<loc, memory_hashes, memory_cache>>
       \/ /\ mem0_client
          /\ pc' = [pc EXCEPT ![t] = "save_done"]
          /\ loc' = [loc EXCEPT ![t].status = "raise"]
          /\ UNCHANGED <<mem0_store, mem0_mappings, memory_hashes, memory_cache>>
       \/ /\ ~mem0_client
          /\ Admit(t)
          /\ UNCHANGED <<mem0_store, mem0_mappings>>
    /\ UNCHANGED <<memories, mem0_client, now, nextId>>
    /\ UNCHANGED session_vars

\* lines 311-338: the delegate's add and the mapping row; with no client, or
\* when add fails or answers without an id, control runs on to line 341
SaveMirror(t) ==
    /\ pc[t] = "save_mirror"
    /\ \/ /\ mem0_client
          /\ mem0_store' = mem0_store \cup
                {[id |-> Mem0Id(loc[t].id), owner |-> loc[t].owner,
                  text |-> loc[t].text]}
          /\ mem0_mappings' = mem0_mappings \cup
                {[local |-> loc[t].id, mem0 |-> Mem0Id(loc[t].id)]}
          /\ pc' = [pc EXCEPT ![t] = "save_admit"]
          /\ UNCHANGED <<loc, memory_hashes, memory_cache>>
       \/ /\ mem0_client
          /\ mem0_store' = mem0_store \cup
                {[id |-> Mem0Id(loc[t].id), owner |-> loc[t].owner,
                  text |-> loc[t].text]}
          /\ Admit(t)
          /\ UNCHANGED mem0_mappings
       \/ /\ Admit(t)
          /\ UNCHANGED <<mem0_store, mem0_mappings>>
    /\ UNCHANGED <<memories, mem0_client, now, nextId>>
    /\ UNCHANGED session_vars

\* lines 340-348, after the await of the mapping insert
SaveAdmit(t) ==
    /\ pc[t] = "save_admit"
    /\ Admit(t)
    /\ UNCHANGED <<memories, mem0_mappings, mem0_client, mem0_store, now, nextId>>
    /\ UNCHANGED session_vars

-----------------------------------------------------------------------------
(* cleanup_expired_memories, lines 1106-1146 *)

\* lines 1120-1125: timestamp < ?, the cutoff being
\* (datetime.now() - timedelta(days=30)).isoformat()
SessionSwept(row) ==
    TextLess(row.timestamp, Isoformat(now - session_retention_days * DayLen))

\* lines 1111-1134: the deletes and their commit
CleanupDelete(t) ==
    /\ pc[t] = "idle"
    /\ LET kept == {i \in Ids : ~SqlExpired(memories[i])}
       IN  /\ memories' = [i \in kept |-> memories[i]]
           /\ mem0_mappings' = {m \in mem0_mappings : m.local \in kept}
    /\ session_table' = {r \in session_table : ~SessionSwept(r)}
    /\ pc' = [pc EXCEPT ![t] = "cleanup_clear"]
    /\ loc' = [loc EXCEPT ![t] =
          [IdleLoc EXCEPT !.status = "run",
                          !.deleted =
                              Cardinality({i \in Ids : SqlExpired(memories[i])})]]
    /\ UNCHANGED <<mem0_client, mem0_store, memory_hashes, memory_cache, now, nextId>>
    /\ UNCHANGED <<current_session_id, active_sessions, session_memories,
                   summary_tasks, nextMsg>>

\* lines 1114-1118 when the store refuses the delete (a locked database, say):
\* the exception leaves the one try of lines 1108-1146, whose handler logs it;
\* no later statement of the run is executed and nothing was committed
CleanupDeleteFails(t) ==
    /\ pc[t] = "idle"
    /\ pc' = [pc EXCEPT ![t] = "cleanup_done"]
    /\ loc' = [loc EXCEPT ![t] = [IdleLoc EXCEPT !.status = "ok", !.failed = TRUE]]
    /\ UNCHANGED <<memories, mem0_mappings, mem0_client, mem0_store, memory_hashes,
                   memory_cache, now, nextId>>
    /\ UNCHANGED session_vars

\* a janitor that adds the rows' hashes to the set it has
CleanupKeepsHashes(t) ==
    /\ pc[t] = "cleanup_clear"
    /\ pc' = [pc EXCEPT ![t] = "cleanup_reload"]
    /\ UNCHANGED <<memories, mem0_mappings, mem0_client, mem0_store, memory_hashes,
                   memory_cache, now, nextId, loc>>
    /\ UNCHANGED session_vars

\* line 1137
CleanupClear(t) ==
    /\ pc[t] = "cleanup_clear"
    /\ memory_hashes' = {}
    /\ pc' = [pc EXCEPT ![t] = "cleanup_reload"]
    /\ UNCHANGED <<memories, mem0_mappings, mem0_client, mem0_store, memory_cache,
                   now, nextId, loc>>
    /\ UNCHANGED session_vars

\* lines 1138-1143
CleanupReload(t) ==
    /\ pc[t] = "cleanup_reload"
    /\ memory_hashes' = memory_hashes \cup {memories[i].hash : i \in Ids}
    /\ pc' = [pc EXCEPT ![t] = "cleanup_done"]
    /\ loc' = [loc EXCEPT ![t].status = "ok"]
    /\ UNCHANGED <<memories, mem0_mappings, mem0_client, mem0_store, memory_cache,
                   now, nextId>>
    /\ UNCHANGED session_vars

-----------------------------------------------------------------------------
(* A new engine on the same store: __init__ and initialize, lines 58-130,      *)
(* and _load_cache, lines 702-745.  The tasks of the old process are gone.     *)

Restart ==
    /\ \E order \in DbOrders(Loadable) :
          LET rows == Take(order, max_cache_size)
          IN  /\ memory_cache' = LoadRows(EmptyCache, rows)
              /\ memory_hashes' = {memories[rows[i]].hash : i \in 1..Len(rows)}
    /\ memories' = [i \in Ids |-> [memories[i] EXCEPT !.carried = TRUE]]
    /\ pc' = [t \in Tasks |-> "idle"]
    /\ loc' = [t \in Tasks |-> IdleLoc]
    /\ UNCHANGED <<mem0_mappings, mem0_client, mem0_store, now, nextId>>
    /\ current_session_id' = NoSession
    /\ active_sessions' = <<>>
    /\ session_memories' = <<>>
    /\ summary_tasks' = <<>>
    /\ UNCHANGED <<session_table, nextMsg>>

-----------------------------------------------------------------------------
(* initialize on the running engine, lines 121-130: _create_tables and           *)
(* _initialize_mem0 change nothing here, _load_cache (lines 702-745) refills the *)
(* cache.  The coroutine awaits the store between the clear and the rows.        *)

\* lines 704-707
LoadClear(t) ==
    /\ pc[t] = "idle"
    /\ memory_cache' = EmptyCache
    /\ pc' = [pc EXCEPT ![t] = "load_fill"]
    /\ loc' = [loc EXCEPT ![t] = [IdleLoc EXCEPT !.status = "run"]]
    /\ UNCHANGED <<memories, mem0_mappings, mem0_client, mem0_store, memory_hashes,
                   now, nextId>>
    /\ UNCHANGED session_vars

\* lines 709-738: each selected row is put in its partition, with no eviction
LoadFill(t) ==
    /\ pc[t] = "load_fill"
    /\ \E order \in DbOrders(Loadable) :
          LET rows == Take(order, max_cache_size)
          IN  /\ memory_cache' = LoadRows(memory_cache, rows)
              /\ memory_hashes' =
                    memory_hashes \cup {memories[rows[i]].hash : i \in 1..Len(rows)}
    /\ pc' = [pc EXCEPT ![t] = "idle"]
    /\ loc' = [loc EXCEPT ![t] = IdleLoc]
    /\ UNCHANGED <<memories, mem0_mappings, mem0_client, mem0_store, now, nextId>>
    /\ UNCHANGED session_vars

LoadSteps(t) == LoadClear(t) \/ LoadFill(t)

\* time passes; a tick is a long time, and no call is in progress across one
Tick ==
    /\ \A t \in Tasks : pc[t] = "idle"
    /\ now < MaxTime
    /\ now' = now + 1
    /\ UNCHANGED <<memories, mem0_mappings, mem0_client, mem0_store, memory_hashes,
                   memory_cache, nextId, pc, loc>>
    /\ UNCHANGED session_vars

-----------------------------------------------------------------------------
(* search_memory, lines 393-467.  A result is the dict the code builds, without  *)
(* its metadata and created_at, which nothing in the search reads.               *)

Result(id, type, content, importance, rel, source) ==
    [id |-> id, type |-> type, content |-> content, importance |-> importance,
     rel |-> rel, source |-> source]

\* _get_local_memory_by_mem0_id, lines 469-492: the join of memories and mappings
_get_local_memory_by_mem0_id(mid) ==
    LET found == {i \in Ids : [local |-> i, mem0 |-> mid] \in mem0_mappings}
    IN  IF found = {} THEN NoId ELSE CHOOSE i \in found : TRUE

\* lines 414-439: one delegate hit, translated
Mem0Result(hit, score) ==
    LET i == _get_local_memory_by_mem0_id(hit.id)
    IN  IF i # NoId
        THEN Result(i, memories[i].memory_type, memories[i].content,
                    memories[i].importance, score, "mem0")
        ELSE Result(hit.id, "unknown", hit.text, Mem0OnlyImportance, score,
                    "mem0_only")

\* lines 499-502
SearchTypes(kind) == IF kind = "all" THEN KindOrder ELSE <<kind>>

\* lines 505-516: the entries of one partition that hold the query
RECURSIVE ScanPartition(_, _, _)
ScanPartition(d, mtype, query) ==
    IF d = <<>> THEN <<>>
    ELSE (IF Contains(Head(d).content, query)
          THEN <<Result(Head(d).id, mtype, Head(d).content, Head(d).importance,
                        _calculate_text_similarity(query, Head(d).content), "cache")>>
          ELSE <<>>) \o ScanPartition(Tail(d), mtype, query)

\* lines 504-516
RECURSIVE ScanCache(_, _)
ScanCache(types, query) ==
    IF types = <<>> THEN <<>>
    ELSE ScanPartition(memory_cache[Head(types)], Head(types), query)
             \o ScanCache(Tail(types), query)

\* the WHERE clause of _search_database, lines 662-681
DbMatches(query, kind, owner) ==
    {i \in Ids :
        /\ memories[i].user_id = owner
        /\ kind = "all" \/ memories[i].memory_type = kind
        /\ Contains(memories[i].content, query)
        /\ SqlLive(memories[i])}

\* lines 683-697
DbResults(ids, query) ==
    [n \in 1..Len(ids) |->
        Result(ids[n], memories[ids[n]].memory_type, memories[ids[n]].content,
               memories[ids[n]].importance,
               _calculate_text_similarity(query, memories[ids[n]].content),
               "database")]

\* _deduplicate_results, lines 612-630
RECURSIVE Dedup(_, _, _)
Dedup(results, seen_ids, seen_content) ==
    IF results = <<>> THEN <<>>
    ELSE LET r == Head(results)
             h == _generate_content_hash(r.content)
         IN  IF r.id # NoId /\ r.id \notin seen_ids
             THEN <<r>> \o Dedup(Tail(results), seen_ids \cup {r.id}, seen_content)
             ELSE IF h \notin seen_content
             THEN <<r>> \o Dedup(Tail(results), seen_ids, seen_content \cup {h})
             ELSE Dedup(Tail(results), seen_ids, seen_content)

_deduplicate_results(results) == Dedup(results, {}, {})

\* the sort key (relevance_score, importance) of line 458
KeyLess(a, b) ==
    \/ FracLess(a.rel, b.rel)
    \/ ~FracLess(b.rel, a.rel) /\ a.importance < b.importance

\* x goes behind every element that is not below it: the sort is stable
RECURSIVE InsertDesc(_, _)
InsertDesc(sorted, x) ==
    IF sorted = <<>> THEN <<x>>
    ELSE IF KeyLess(Head(sorted), x) THEN <<x>> \o sorted
    ELSE <<Head(sorted)>> \o InsertDesc(Tail(sorted), x)

\* results.sort(key=..., reverse=True), line 458
RECURSIVE SortDesc(_)
SortDesc(s) ==
    IF s = <<>> THEN <<>>
    ELSE InsertDesc(SortDesc(SubSeq(s, 1, Len(s) - 1)), s[Len(s)])

\* lines 456-458 on what the sources gave
Merge(results, rows, query) ==
    SortDesc(_deduplicate_results(results \o DbResults(rows, query)))

Occurrences(results, id) == Cardinality({n \in 1..Len(results) : results[n].id = id})

\* lines 403-449: the delegate's hits, the early return, the scan of the cache
SearchBegin(t, query, kind, limit, owner, semantic) ==
    /\ pc[t] = "idle"
    /\ \A i \in Ids : memories[i].access_count + 2 <= MaxAccess
    /\ \E hits \in (IF mem0_client /\ semantic
                    THEN Picks({e \in mem0_store : e.owner = owner}, limit)
                    ELSE {<<>>}) :
       \E score \in [1..Len(hits) -> DelegateScores] :
          LET base == [IdleLoc EXCEPT !.status = "run",
                          !.kind = kind, !.text = query, !.owner = owner,
                          !.limit = limit]
              found == [n \in 1..Len(hits) |-> Mem0Result(hits[n], score[n])]
          IN  IF mem0_client /\ semantic /\ Len(found) >= limit
              THEN /\ pc' = [pc EXCEPT ![t] = "search_done"]
                   /\ loc' = [loc EXCEPT ![t] =
                         [base EXCEPT !.status = "ok", !.early = TRUE,
                                      !.results = Take(found, limit)]]
              ELSE /\ pc' = [pc EXCEPT ![t] = "search_db"]
                   /\ loc' = [loc EXCEPT ![t] =
                         [base EXCEPT
                             !.lim2 = limit - Len(found),
                             !.results = found \o ScanCache(SearchTypes(kind), query)]]
    /\ UNCHANGED <<memories, mem0_mappings, mem0_client, mem0_store, memory_hashes,
                   memory_cache, now, nextId>>
    /\ UNCHANGED session_vars

\* lines 518-520 and 456-458: the scan of the store, then the merge
SearchDb(t) ==
    /\ pc[t] = "search_db"
    /\ LET l == loc[t]
       IN  \E order \in (IF Len(l.results) < l.lim2
                         THEN DbOrders(DbMatches(l.text, l.kind, l.owner))
                         ELSE {<<>>}) :
              LET rows == Take(order, l.lim2 - Len(l.results))
              IN  loc' = [loc EXCEPT ![t].results = Merge(l.results, rows, l.text)]
    /\ pc' = [pc EXCEPT ![t] = "search_update"]
    /\ UNCHANGED <<memories, mem0_mappings, mem0_client, mem0_store, memory_hashes,
                   memory_cache, now, nextId>>
    /\ UNCHANGED session_vars

\* _update_access_counts, lines 632-648, and the return of line 463
SearchUpdate(t) ==
    /\ pc[t] = "search_update"
    /\ memories' =
          [i \in Ids |->
              [memories[i] EXCEPT
                  !.access_count = @ + Occurrences(loc[t].results, i)]]
    /\ pc' = [pc EXCEPT ![t] = "search_done"]
    /\ loc' = [loc EXCEPT ![t].status = "ok",
                          ![t].results = Take(loc[t].results, loc[t].limit)]
    /\ UNCHANGED <<mem0_mappings, mem0_client, mem0_store, memory_hashes,
                   memory_cache, now, nextId>>
    /\ UNCHANGED session_vars

\* the lists search_memory returns for these arguments with use_semantic_search
\* False, in the state as it is: lines 449-463 with results empty at line 449
LocalOnly(query, kind, limit, owner) ==
    LET cached == ScanCache(SearchTypes(kind), query)
        orders == IF Len(cached) < limit
                  THEN DbOrders(DbMatches(query, kind, owner))
                  ELSE {<<>>}
    IN  {Take(Merge(cached, Take(order, limit - Len(cached)), query), limit) :
            order \in orders}

\* the delegate's failure reaching the caller's handler: the except of lines
\* 465-467 answers with the empty list
SearchBeginDelegateFailsEmpty(t, query, kind, limit, owner) ==
    /\ pc[t] = "idle"
    /\ mem0_client
    /\ \A i \in Ids : memories[i].access_count + 2 <= MaxAccess
    /\ pc' = [pc EXCEPT ![t] = "search_done"]
    /\ loc' = [loc EXCEPT ![t] =
          [IdleLoc EXCEPT !.status = "ok", !.kind = kind, !.text = query,
                          !.owner = owner, !.limit = limit, !.failed = TRUE,
                          !.expect = LocalOnly(query, kind, limit, owner)]]
    /\ UNCHANGED <<memories, mem0_mappings, mem0_client, mem0_store, memory_hashes,
                   memory_cache, now, nextId>>
    /\ UNCHANGED session_vars

\* lines 407-449 when mem0_client.search raises: the except of lines 445-446
\* logs, results is still empty, and the scan of the cache follows
SearchBeginDelegateFails(t, query, kind, limit, owner) ==
    /\ pc[t] = "idle"
    /\ mem0_client
    /\ \A i \in Ids : memories[i].access_count + 2 <= MaxAccess
    /\ pc' = [pc EXCEPT ![t] = "search_db"]
    /\ loc' = [loc EXCEPT ![t] =
          [IdleLoc EXCEPT !.status = "run", !.kind = kind, !.text = query,
                          !.owner = owner, !.limit = limit, !.lim2 = limit,
                          !.results = ScanCache(SearchTypes(kind), query),
                          !.failed = TRUE,
                          !.expect = LocalOnly(query, kind, limit, owner)]]
    /\ UNCHANGED <<memories, mem0_mappings, mem0_client, mem0_store, memory_hashes,
                   memory_cache, now, nextId>>
    /\ UNCHANGED session_vars

\* lines 408-412 when mem0_client.search never answers: the call is a plain
\* synchronous call with no timeout around it, so control stays inside it and
\* no later line of search_memory runs
SearchBeginDelegateHangs(t, query, kind, limit, owner) ==
    /\ pc[t] = "idle"
    /\ mem0_client
    /\ pc' = [pc EXCEPT ![t] = "search_wait"]
    /\ loc' = [loc EXCEPT ![t] =
          [IdleLoc EXCEPT !.status = "run", !.kind = kind, !.text = query,
                          !.owner = owner, !.limit = limit, !.lim2 = limit,
                          !.expect = LocalOnly(query, kind, limit, owner)]]
    /\ UNCHANGED <<memories, mem0_mappings, mem0_client, mem0_store, memory_hashes,
                   memory_cache, now, nextId>>
    /\ UNCHANGED session_vars

-----------------------------------------------------------------------------
(* update_memory(memory_id, metadata, importance), as the facades call it:      *)
(* user_memory.py lines 255-259 and 362, agent_memory.py lines 228 and 478.     *)
(* The class EnhancedMemoryManager, lines 55-1167, defines no such method (nor  *)
(* the _get_memory_by_id the facades call first): the call raises               *)
(* AttributeError, and nothing is read or written.                              *)

update_memory(t, memory_id, metadata, importance) ==
    /\ pc[t] = "idle"
    /\ pc' = [pc EXCEPT ![t] = "update_done"]
    /\ loc' = [loc EXCEPT ![t] =
          [IdleLoc EXCEPT !.status = "raise", !.target = memory_id,
                          !.metadata = metadata, !.importance = importance]]
    /\ UNCHANGED <<memories, mem0_mappings, mem0_client, mem0_store, memory_hashes,
                   memory_cache, now, nextId>>
    /\ UNCHANGED session_vars

-----------------------------------------------------------------------------
(* _calculate_importance, lines 228-251, called on its own *)

CalculateImportance(t, content, metadata) ==
    /\ pc[t] = "idle"
    /\ pc' = [pc EXCEPT ![t] = "importance_done"]
    /\ loc' = [loc EXCEPT ![t] =
          [IdleLoc EXCEPT !.status = "ok", !.text = content, !.metadata = metadata,
                          !.importance = _calculate_importance(content, metadata)]]
    /\ UNCHANGED <<memories, mem0_mappings, mem0_client, mem0_store, memory_hashes,
                   memory_cache, now, nextId>>
    /\ UNCHANGED session_vars

-----------------------------------------------------------------------------
(* The session facade: SessionMemoryManager of session_memory.py, reached       *)
(* through UnifiedMemoryManager.start_session and end_session                   *)
(* (unified_memory_manager.py lines 176-194), which pass their arguments on.    *)
(* start_new_session (enhanced_memory_manager.py lines 777-786) draws the id;   *)
(* its summary task needs session_memories, which only save_session_memory      *)
(* fills, and is not entered here.                                              *)

SessionDoc(type) == [type |-> type, key |-> NoKey]

\* the facade awaits memory_manager.save_memory: lines 264-292 of the engine,
\* with the facade's frame kept in the task's locals
FacadeSave(t, frame, content, metadata, importance, owner) ==
    LET h == _generate_content_hash(content)
        base == [frame EXCEPT !.status = "run", !.kind = "session",
                    !.text = content, !.metadata = metadata, !.owner = owner,
                    !.hash = h,
                    !.pre = IF RowsWithHash(h) = {} THEN NoId
                            ELSE CHOOSE i \in RowsWithHash(h) : TRUE]
    IN  IF h \in memory_hashes
        THEN /\ pc' = [pc EXCEPT ![t] = "save_lookup"]
             /\ loc' = [loc EXCEPT ![t] = base]
             /\ UNCHANGED nextId
        ELSE /\ nextId <= MaxIds
             /\ pc' = [pc EXCEPT ![t] = "save_insert"]
             /\ loc' = [loc EXCEPT ![t] =
                   [base EXCEPT !.id = nextId, !.importance = importance]]
             /\ nextId' = nextId + 1

\* start_new_session, enhanced_memory_manager.py lines 777-786, sid being the
\* uuid4 of line 783.  create_task is given a coroutine with no arguments; the
\* entry put in summary_tasks notes the session that was current and the length
\* of its buffer when the task was created.
start_new_session(sid) ==
    /\ summary_tasks' =
          IF current_session_id # NoSession /\ session_memories # <<>>
          THEN Append(summary_tasks, [prev |-> current_session_id,
                                      count |-> Len(session_memories)])
          ELSE summary_tasks
    /\ current_session_id' = sid
    /\ session_memories' = <<>>

\* start_session, session_memory.py lines 25-66.  With metadata None the
\* `**metadata` of line 56 raises TypeError while the arguments of save_memory
\* are built, after the session was registered at lines 40-42; lines 64-66 log
\* and re-raise.
StartSession(t, user_id, session_type, has_meta) ==
    /\ pc[t] = "idle"
    /\ current_session_id < MaxSessions
    /\ LET sid == current_session_id + 1
           frame == [IdleLoc EXCEPT !.op = "start_session", !.session = sid,
                                    !.has_meta = has_meta, !.owner = user_id]
       IN  /\ start_new_session(sid)
           /\ active_sessions' = Extend(active_sessions, sid, user_id)
           /\ IF has_meta
              THEN FacadeSave(t, frame, <<"start", session_type>>,
                              SessionDoc("session_start"), 60, user_id)
              ELSE /\ pc' = [pc EXCEPT ![t] = "session_done"]
                   /\ loc' = [loc EXCEPT ![t] = [frame EXCEPT !.status = "raise"]]
                   /\ UNCHANGED nextId
    /\ UNCHANGED <<memories, mem0_mappings, mem0_client, mem0_store,
                   memory_hashes, memory_cache, now, session_table, nextMsg>>

\* end_session with a summary, session_memory.py lines 68-95
EndSession(t, session_id) ==
    /\ pc[t] = "idle"
    /\ LET frame == [IdleLoc EXCEPT !.op = "end_session", !.session = session_id]
       IN  IF session_id \notin DOMAIN active_sessions
           THEN /\ pc' = [pc EXCEPT ![t] = "session_done"]
                /\ loc' = [loc EXCEPT ![t] =
                      [frame EXCEPT !.status = "ok", !.answer = FALSE]]
                /\ UNCHANGED nextId
           ELSE FacadeSave(t, frame, <<"end">>, SessionDoc("session_end"), 70,
                           active_sessions[session_id])
    /\ UNCHANGED <<memories, mem0_mappings, mem0_client, mem0_store,
                   memory_hashes, memory_cache, now>>
    /\ UNCHANGED session_vars

\* the caller of save_memory after it: start_session lines 61-66, end_session
\* lines 102-115, save_session_memory lines 882-886 (the id of the message, or
\* the exception again), _save_session_summary lines 824-825 (an exception is
\* logged)
SessionReturn(t) ==
    /\ pc[t] = "save_done"
    /\ loc[t].op \in {"start_session", "end_session", "save_session_memory",
                      "session_summary"}
    /\ pc' = [pc EXCEPT ![t] = "session_done"]
    /\ IF loc[t].op = "start_session"
       THEN /\ UNCHANGED loc
            /\ UNCHANGED active_sessions
       ELSE IF loc[t].op = "save_session_memory"
       THEN /\ loc' = IF loc[t].status = "ok"
                      THEN [loc EXCEPT ![t].ret = loc[t].msg]
                      ELSE loc
            /\ UNCHANGED active_sessions
       ELSE IF loc[t].op = "session_summary"
       THEN /\ loc' = [loc EXCEPT ![t].status = "ok", ![t].ret = NoId]
            /\ UNCHANGED active_sessions
       ELSE IF loc[t].status = "ok"
       THEN /\ loc' = [loc EXCEPT ![t].answer = TRUE]
            /\ active_sessions' =
                  [s \in DOMAIN active_sessions \ {loc[t].session} |->
                      active_sessions[s]]
       ELSE /\ loc' = [loc EXCEPT ![t].status = "ok", ![t].answer = FALSE]
            /\ UNCHANGED active_sessions
    /\ UNCHANGED <<memories, mem0_mappings, mem0_client, mem0_store,
                   memory_hashes, memory_cache, now, nextId, current_session_id,
                   session_memories, session_table, summary_tasks, nextMsg>>

-----------------------------------------------------------------------------
(* Session messages: save_session_memory, lines 827-886, and the summary task  *)
(* start_new_session creates, _save_session_summary, lines 788-825.            *)

\* a call of start_new_session by itself, as in JarvisAgent.initialize
\* (jarvis_agent.py line 53): it has no await
StartNewSession(t) ==
    /\ pc[t] = "idle"
    /\ current_session_id < MaxSessions
    /\ start_new_session(current_session_id + 1)
    /\ pc' = [pc EXCEPT ![t] = "session_done"]
    /\ loc' = [loc EXCEPT ![t] =
          [IdleLoc EXCEPT !.op = "start_new_session", !.status = "ok",
                          !.session = current_session_id + 1]]
    /\ UNCHANGED <<memories, mem0_mappings, mem0_client, mem0_store,
                   memory_hashes, memory_cache, now, nextId, active_sessions,
                   session_table, nextMsg>>

\* lines 892 and 896, in pinyin
UserSessionKeywords ==
    {"zhongyao", "jizhu", "buyaowangji", "yihou", "xiaci", "tixing", "mubiao",
     "jihua"}
AssistantSessionKeywords == {"jianyi", "fangan", "buzhou", "fangfa"}

\* lines 888-897
_is_important_session_content(content, role) ==
    CASE role = "user" -> WordSet(content) \cap UserSessionKeywords # {}
      [] role = "assistant" ->
            \/ StrLen(content) > 200
            \/ WordSet(content) \cap AssistantSessionKeywords # {}
      [] OTHER -> FALSE

\* the f-string of line 873
ImportantSessionText(role, content) == <<"huihuaneirong", role>> \o content

\* the last n elements of s: s[-n:] for n > 0
LastN(s, n) == IF Len(s) <= n THEN s ELSE SubSeq(s, Len(s) - n + 1, Len(s))

\* a save that keeps one row for each (session_id, role, content)
save_session_memory_once(t, session_id, role, content) ==
    /\ pc[t] = "idle"
    /\ nextMsg <= MaxMsgs
    /\ session_table' =
          IF \E r \in session_table :
                r.session_id = session_id /\ r.role = role /\ r.content = content
          THEN session_table
          ELSE session_table \cup
                  {[id |-> nextMsg, session_id |-> session_id, role |-> role,
                    content |-> content, timestamp |-> CURRENT_TIMESTAMP]}
    /\ nextMsg' = nextMsg + 1
    /\ pc' = [pc EXCEPT ![t] = "session_append"]
    /\ loc' = [loc EXCEPT ![t] =
          [IdleLoc EXCEPT !.op = "save_session_memory", !.status = "run",
                          !.session = session_id, !.role = role,
                          !.text = content, !.msg = nextMsg]]
    /\ UNCHANGED <<memories, mem0_mappings, mem0_client, mem0_store,
                   memory_hashes, memory_cache, now, nextId, current_session_id,
                   active_sessions, session_memories, summary_tasks>>

\* lines 836-853: the uuid4, the row and its commit
save_session_memory(t, session_id, role, content) ==
    /\ pc[t] = "idle"
    /\ nextMsg <= MaxMsgs
    /\ session_table' = session_table \cup
          {[id |-> nextMsg, session_id |-> session_id, role |-> role,
            content |-> content, timestamp |-> CURRENT_TIMESTAMP]}
    /\ nextMsg' = nextMsg + 1
    /\ pc' = [pc EXCEPT ![t] = "session_append"]
    /\ loc' = [loc EXCEPT ![t] =
          [IdleLoc EXCEPT !.op = "save_session_memory", !.status = "run",
                          !.session = session_id, !.role = role,
                          !.text = content, !.msg = nextMsg]]
    /\ UNCHANGED <<memories, mem0_mappings, mem0_client, mem0_store,
                   memory_hashes, memory_cache, now, nextId, current_session_id,
                   active_sessions, session_memories, summary_tasks>>

\* a save that buffers its message whatever session is current
SessionAppendAlways(t) ==
    /\ pc[t] = "session_append"
    /\ session_memories' =
          LastN(Append(session_memories,
                       [id |-> loc[t].msg, role |-> loc[t].role,
                        content |-> loc[t].text, session_id |-> loc[t].session]),
                max_session_buffer)
    /\ IF _is_important_session_content(loc[t].text, loc[t].role)
       THEN FacadeSave(t, loc[t], ImportantSessionText(loc[t].role, loc[t].text),
                       SessionDoc("important_session"), 80, "default")
       ELSE /\ pc' = [pc EXCEPT ![t] = "session_done"]
            /\ loc' = [loc EXCEPT ![t].status = "ok", ![t].ret = loc[t].msg]
            /\ UNCHANGED nextId
    /\ UNCHANGED <<memories, mem0_mappings, mem0_client, mem0_store,
                   memory_hashes, memory_cache, now, current_session_id,
                   active_sessions, session_table, summary_tasks, nextMsg>>

\* lines 856-882: the buffer, then the save of an important message, up to
\* the first await of that save
SessionAppend(t) ==
    /\ pc[t] = "session_append"
    /\ session_memories' =
          IF loc[t].session = current_session_id
          THEN LastN(Append(session_memories,
                            [id |-> loc[t].msg, role |-> loc[t].role,
                             content |-> loc[t].text,
                             session_id |-> loc[t].session]),
                     max_session_buffer)
          ELSE session_memories
    /\ IF _is_important_session_content(loc[t].text, loc[t].role)
       THEN FacadeSave(t, loc[t], ImportantSessionText(loc[t].role, loc[t].text),
                       SessionDoc("important_session"), 80, "default")
       ELSE /\ pc' = [pc EXCEPT ![t] = "session_done"]
            /\ loc' = [loc EXCEPT ![t].status = "ok", ![t].ret = loc[t].msg]
            /\ UNCHANGED nextId
    /\ UNCHANGED <<memories, mem0_mappings, mem0_client, mem0_store,
                   memory_hashes, memory_cache, now, current_session_id,
                   active_sessions, session_table, summary_tasks, nextMsg>>

\* the metadata of lines 814-819
SummaryDoc(session_id, message_count) ==
    [type |-> "session_summary", key |-> NoKey, session_id |-> session_id,
     message_count |-> message_count]

WithRole(msgs, role) == SelectSeq(msgs, LAMBDA m : m.role = role)

\* lines 795-809 for messages of at most 10 characters, which give no topic
SummaryText(session_id, msgs) ==
    <<"huihuazhaiyao", ToString(session_id),
      ToString(Len(WithRole(msgs, "user"))),
      ToString(Len(WithRole(msgs, "assistant")))>>

\* _save_session_summary, lines 788-825, up to the first await of its save:
\* the event loop runs the oldest task that start_new_session created
_save_session_summary(t) ==
    /\ pc[t] = "idle"
    /\ summary_tasks # <<>>
    /\ summary_tasks' = Tail(summary_tasks)
    /\ LET frame == [IdleLoc EXCEPT !.op = "session_summary",
                                    !.session = Head(summary_tasks).prev,
                                    !.count = Head(summary_tasks).count,
                                    !.expires_at = now + SummaryTtl * DayLen]
       IN  IF session_memories = <<>>
           THEN /\ pc' = [pc EXCEPT ![t] = "session_done"]
                /\ loc' = [loc EXCEPT ![t] = [frame EXCEPT !.status = "ok"]]
                /\ UNCHANGED nextId
           ELSE FacadeSave(t, frame,
                           SummaryText(current_session_id, session_memories),
                           SummaryDoc(current_session_id, Len(session_memories)),
                           50, "default")
    /\ UNCHANGED <<memories, mem0_mappings, mem0_client, mem0_store,
                   memory_hashes, memory_cache, now, current_session_id,
                   active_sessions, session_memories, session_table, nextMsg>>

-----------------------------------------------------------------------------
(* The agent facade: AgentMemoryManager of agent_memory.py.  register_skill     *)
(* (lines 115-152) is a save_memory of kind AGENT for user "system" with        *)
(* importance 0.8 and the metadata below; the content starts with the words     *)
(* get_available_skills searches for.                                           *)

SkillLimit == 100

SkillQuery == <<"jineng">>

SkillDoc(name) ==
    [type |-> "skill", key |-> NoKey, skill_name |-> name, usage_count |-> 0]

RegisterSkill(name) ==
    [kind |-> "agent", content |-> SkillQuery \o <<name>>, metadata |-> SkillDoc(name),
     importance |-> 80, ttl |-> NoTtl, owner |-> "system"]

\* the rows of a registered skill
SkillRows(name) ==
    {i \in Ids : memories[i].metadata.type = "skill"
                    /\ memories[i].metadata.skill_name = name}

\* get_available_skills, lines 154-187, on the list the search returned: the
\* ids of the skill records named name
SkillsFound(results, name) ==
    {results[n].id : n \in {m \in 1..Len(results) :
        /\ results[m].id \in Ids
        /\ memories[results[m].id].metadata.type = "skill"
        /\ memories[results[m].id].metadata.skill_name = name}}

\* record_skill_usage, lines 189-241, by one caller with no delegate: the
\* search of get_available_skills with its access counts (engine lines 448-463),
\* then for a skill that was found the call of memory_manager._get_memory_by_id
\* at line 220, a method the engine does not have: the AttributeError is caught
\* at lines 239-241, which return False; lines 221-236 are not reached
record_skill_usage(t, skill_name) ==
    /\ pc[t] = "idle"
    /\ \A i \in Ids : memories[i].access_count + 2 <= MaxAccess
    /\ LET cached == ScanCache(SearchTypes("agent"), SkillQuery)
           orders == IF Len(cached) < SkillLimit
                     THEN DbOrders(DbMatches(SkillQuery, "agent", "system"))
                     ELSE {<<>>}
       IN  \E order \in orders :
              LET merged == Merge(cached, Take(order, SkillLimit - Len(cached)),
                                  SkillQuery)
                  found == SkillsFound(Take(merged, SkillLimit), skill_name)
              IN  /\ memories' =
                        [i \in Ids |->
                            [memories[i] EXCEPT
                                !.access_count = @ + Occurrences(merged, i)]]
                  /\ loc' = [loc EXCEPT ![t] =
                        [IdleLoc EXCEPT
                            !.status = "ok", !.skill = skill_name,
                            !.answer = FALSE,
                            !.target = IF found = {} THEN NoId
                                       ELSE CHOOSE i \in found : TRUE]]
    /\ pc' = [pc EXCEPT ![t] = "usage_done"]
    /\ UNCHANGED <<mem0_mappings, mem0_client, mem0_store, memory_hashes,
                   memory_cache, now, nextId>>
    /\ UNCHANGED session_vars

-----------------------------------------------------------------------------
(* The engine *)

\* the caller takes what the call returned
Return(t) ==
    /\ pc[t] \in {"save_done", "search_done", "update_done", "importance_done",
                 "cleanup_done", "session_done", "usage_done"}
    /\ pc[t] = "save_done" => loc[t].op = ""
    /\ pc' = [pc EXCEPT ![t] = "idle"]
    /\ loc' = [loc EXCEPT ![t] = IdleLoc]
    /\ UNCHANGED <<memories, mem0_mappings, mem0_client, mem0_store, memory_hashes,
                   memory_cache, now, nextId>>
    /\ UNCHANGED session_vars

SaveCall(kind, content, metadata, importance, ttl, owner) ==
    [kind |-> kind, content |-> content, metadata |-> metadata,
     importance |-> importance, ttl |-> ttl, owner |-> owner]

SearchCall(query, kind, limit, owner, semantic) ==
    [query |-> query, kind |-> kind, limit |-> limit, owner |-> owner,
     semantic |-> semantic]

\* save_memory with no delegate answering: control never waits on a mapping row
SaveSteps(t, saves) ==
    \/ \E c \in saves :
          SaveBegin(t, c.kind, c.content, c.metadata, c.importance, c.ttl, c.owner)
    \/ SaveLookup(t)
    \/ SaveInsert(t)
    \/ SaveMirror(t)

SearchSteps(t, searches) ==
    \/ \E c \in searches :
          SearchBegin(t, c.query, c.kind, c.limit, c.owner, c.semantic)
    \/ SearchDb(t)
    \/ SearchUpdate(t)

CleanupSteps(t) == CleanupDelete(t) \/ CleanupClear(t) \/ CleanupReload(t)

InitNoDelegate == Init /\ ~mem0_client

InitDelegate == Init /\ mem0_client

\* One caller, whose calls follow one another; two owners; no delegate; nothing
\* expires.
Saves ==
    {SaveCall("user", c, NoMeta, i, NoTtl, o) :
        c \in Contents, i \in Importances, o \in Owners}

Searches ==
    {SearchCall(q, "all", l, o, TRUE) : q \in Queries, l \in Limits, o \in Owners}

Next ==
    \/ \E t \in SeqTasks :
          \/ SaveSteps(t, Saves)
          \/ SearchSteps(t, Searches)
          \/ CleanupSteps(t)
          \/ Return(t)
    \/ Restart

Spec == InitNoDelegate /\ [][Next]_vars

\* One caller and one owner; no delegate; records expire and the clock runs.
SavesTime ==
    {SaveCall("user", c, NoMeta, i, ttl, "u1") :
        c \in Contents, i \in Importances, ttl \in Ttls}

SearchesTime ==
    {SearchCall(q, "all", l, "u1", TRUE) : q \in Queries, l \in Limits}

NextTime ==
    \/ \E t \in SeqTasks :
          \/ SaveSteps(t, SavesTime)
          \/ SearchSteps(t, SearchesTime)
          \/ CleanupSteps(t)
          \/ Return(t)
    \/ Tick

SpecTime == InitNoDelegate /\ [][NextTime]_vars

\* One caller and one owner, with the delegate configured.
SavesDelegate ==
    {SaveCall("user", c, NoMeta, i, NoTtl, "u1") :
        c \in Contents, i \in Importances}

SearchesDelegate ==
    {SearchCall(q, "all", l, "u1", sem) :
        q \in Queries, l \in Limits, sem \in BOOLEAN}

NextDelegate ==
    \E t \in SeqTasks :
        \/ SaveSteps(t, SavesDelegate)
        \/ SaveAdmit(t)
        \/ SearchSteps(t, SearchesDelegate)
        \/ CleanupSteps(t)
        \/ Return(t)

SpecDelegate == InitDelegate /\ [][NextDelegate]_vars

\* Two callers on one event loop: their calls interleave at the awaits.
SavesConc ==
    {SaveCall("user", c, NoMeta, i, NoTtl, "u1") :
        c \in Contents, i \in Importances}

NextConc ==
    \/ \E t \in Tasks :
          \/ SaveSteps(t, SavesConc)
          \/ CleanupSteps(t)
          \/ Return(t)
    \/ Restart

SpecConc == InitNoDelegate /\ [][NextConc]_vars

\* One caller whose saves are all admitted to the cache, some under a metadata
\* key.
CacheContents == {<<"a">>, <<"b">>, <<"c">>}

Loaders == {"t2"}

SavesCache ==
    {SaveCall("user", c, m, i, NoTtl, "u1") :
        c \in CacheContents, m \in MetaDocs, i \in {90, 100}}

NextEvict ==
    \E t \in SeqTasks :
        \/ SaveSteps(t, SavesCache)
        \/ Return(t)

SpecEvict == InitNoDelegate /\ [][NextEvict]_vars

\* The same caller, while a second task runs initialize again.
NextCache ==
    \/ \E t \in SeqTasks :
          \/ SaveSteps(t, SavesCache)
          \/ Return(t)
    \/ \E t \in Loaders : LoadSteps(t)

SpecCache == InitNoDelegate /\ [][NextCache]_vars

\* One caller and one owner with the delegate configured: the delegate may fail,
\* the caller may pass any importance, the engine may be started again, and the
\* facades' update is called.
SavesErr ==
    {SaveCall("user", c, NoMeta, i, NoTtl, "u1") :
        c \in Contents, i \in {NoImportance, 90, 150}}

SearchesErr ==
    {SearchCall(q, "all", l, "u1", sem) :
        q \in Queries, l \in Limits, sem \in BOOLEAN}

NextErr ==
    \/ \E t \in SeqTasks :
          \/ SaveSteps(t, SavesErr)
          \/ SaveAdmit(t)
          \/ SearchSteps(t, SearchesErr)
          \/ \E c \in SearchesErr :
                SearchBeginDelegateFails(t, c.query, c.kind, c.limit, c.owner)
          \/ \E i \in 1..MaxIds, m \in MetaDocs :
                update_memory(t, i, m, 60)
          \/ Return(t)
    \/ Restart

SpecErr == InitDelegate /\ [][NextErr]_vars

\* One caller and one owner with the delegate configured; the delegate's search
\* may never answer.  The event loop runs every call that is under way to its
\* next await or return: each step after a call's first is weakly fair.
NextLive ==
    \E t \in SeqTasks :
        \/ SaveSteps(t, SavesDelegate)
        \/ SaveAdmit(t)
        \/ SearchSteps(t, SearchesDelegate)
        \/ \E c \in SearchesDelegate :
              SearchBeginDelegateHangs(t, c.query, c.kind, c.limit, c.owner)
        \/ Return(t)

SpecLive ==
    /\ InitDelegate
    /\ [][NextLive]_vars
    /\ \A t \in SeqTasks :
          /\ WF_vars(SaveLookup(t))
          /\ WF_vars(SaveInsert(t))
          /\ WF_vars(SaveMirror(t))
          /\ WF_vars(SaveAdmit(t))
          /\ WF_vars(SearchDb(t))
          /\ WF_vars(SearchUpdate(t))

\* Two callers on one event loop, one owner, no delegate: saves of records that
\* may expire, janitor runs by either caller, and the clock.
SavesJanitor ==
    {SaveCall("user", c, NoMeta, 90, ttl, "u1") : c \in Contents, ttl \in Ttls}

NextJanitor ==
    \/ \E t \in SeqTasks : SaveSteps(t, SavesJanitor)
    \/ \E t \in Tasks : CleanupSteps(t) \/ Return(t)
    \/ Tick

SpecJanitor == InitNoDelegate /\ [][NextJanitor]_vars

\* One caller and one owner, no delegate: saves, janitor runs whose delete may
\* fail, and a new engine on the same store.
SavesSweep ==
    {SaveCall("user", c, NoMeta, i, NoTtl, "u1") : c \in Contents, i \in Importances}

NextSweep ==
    \/ \E t \in SeqTasks :
          \/ SaveSteps(t, SavesSweep)
          \/ CleanupSteps(t)
          \/ CleanupDeleteFails(t)
          \/ Return(t)
    \/ Restart

SpecSweep == InitNoDelegate /\ [][NextSweep]_vars

\* One caller, two owners, no delegate, three contents that hold the query "a":
\* u2 saves important records, u1 saves ordinary ones and searches.
ReadContents == {<<"a">>, <<"a", "b">>, <<"a", "c">>}

SavesRead ==
    {SaveCall("user", c, NoMeta, 90, NoTtl, "u2") : c \in ReadContents}
        \cup {SaveCall("user", c, NoMeta, NoImportance, NoTtl, "u1") : c \in ReadContents}

SearchesRead ==
    {SearchCall(<<"a">>, k, l, "u1", FALSE) : k \in {"all", "user"}, l \in Limits}

NextRead ==
    \E t \in SeqTasks :
        \/ SaveSteps(t, SavesRead)
        \/ SearchSteps(t, SearchesRead)
        \/ Return(t)

SpecRead == InitNoDelegate /\ [][NextRead]_vars

\* One caller of the session facade, no delegate: sessions are started with and
\* without a metadata argument, and ended.
SessionTypes == {"chat", "task"}

NextSession ==
    \E t \in SeqTasks :
        \/ \E type \in SessionTypes, has_meta \in BOOLEAN :
              StartSession(t, "u1", type, has_meta)
        \/ \E s \in 1..MaxSessions : EndSession(t, s)
        \/ SaveLookup(t)
        \/ SaveInsert(t)
        \/ SaveMirror(t)
        \/ SessionReturn(t)
        \/ Return(t)

SpecSession == InitNoDelegate /\ [][NextSession]_vars

\* One caller of the agent facade, no delegate: skills are registered and their
\* use is recorded.
SkillNames == {"s1", "s2"}

SavesSkill == {RegisterSkill(name) : name \in SkillNames}

NextSkill ==
    \E t \in SeqTasks :
        \/ SaveSteps(t, SavesSkill)
        \/ \E name \in SkillNames : record_skill_usage(t, name)
        \/ Return(t)

SpecSkill == InitNoDelegate /\ [][NextSkill]_vars

\* _calculate_importance on contents short and long, around the 100 characters
\* of line 232, with and without a keyword, under every metadata type it reads.
Filled(n) == [i \in 1..n |-> "a"]

ShortContents ==
    {<<>>} \cup {<<w>> : w \in {"a", "zhongyao", "buxihuan"}}
           \cup {<<w, v>> : w \in {"a", "zhongyao", "buxihuan"},
                            v \in {"a", "zhongyao", "buxihuan"}}

ImportanceContents ==
    ShortContents
        \cup {Filled(n) : n \in 49..51}
        \cup {<<k>> \o Filled(n) : k \in {"zhongyao", "buxihuan"}, n \in 49..51}

ImportanceMetaDocs ==
    {[type |-> ty, key |-> k] :
        ty \in {"none", "preference", "goal", "relationship", "vision"},
        k \in {NoKey, "theme"}}

NextImportance ==
    \E t \in SeqTasks :
        \/ \E c \in ImportanceContents, m \in ImportanceMetaDocs :
              CalculateImportance(t, c, m)
        \/ Return(t)

SpecImportance == InitNoDelegate /\ [][NextImportance]_vars

\* Two callers of the engine's session methods, no delegate: sessions are
\* started, messages of sessions that were started are saved, the summary
\* tasks run when the event loop takes them.
SessionContents == {<<"a">>, <<"jizhu">>}

NextBuffer ==
    \E t \in Tasks :
        \/ StartNewSession(t)
        \/ \E s \in 1..current_session_id :
              save_session_memory(t, s, "user", <<"a">>)
        \/ SessionAppend(t)
        \/ _save_session_summary(t)
        \/ SaveLookup(t)
        \/ SaveInsert(t)
        \/ SaveMirror(t)
        \/ SessionReturn(t)
        \/ Return(t)

SpecBuffer == InitNoDelegate /\ [][NextBuffer]_vars

\* One caller saving the messages of a session an earlier process started,
\* while time passes and the janitor runs.
NextMessages ==
    \/ \E t \in SeqTasks :
          \/ \E c \in SessionContents : save_session_memory(t, 1, "user", c)
          \/ SessionAppend(t)
          \/ SaveLookup(t)
          \/ SaveInsert(t)
          \/ SaveMirror(t)
          \/ SessionReturn(t)
          \/ CleanupSteps(t)
          \/ Return(t)
    \/ Tick

SpecMessages == InitNoDelegate /\ [][NextMessages]_vars

\* One caller and one owner with the delegate configured: records of two kinds
\* are saved, and searched for with a kind filter.
FilterKinds == {"user", "session"}

SavesKind ==
    {SaveCall(k, c, NoMeta, 90, NoTtl, "u1") : k \in FilterKinds, c \in Contents}

SearchesKind ==
    {SearchCall(q, k, l, "u1", sem) :
        q \in Queries, k \in FilterKinds, l \in Limits, sem \in BOOLEAN}

NextKind ==
    \E t \in SeqTasks :
        \/ SaveSteps(t, SavesKind)
        \/ SaveAdmit(t)
        \/ SearchSteps(t, SearchesKind)
        \/ Return(t)

SpecKind == InitDelegate /\ [][NextKind]_vars

-----------------------------------------------------------------------------
(* Properties *)

RowsWithContent(c) == {i \in Ids : memories[i].content = c}

IdSet(results) == {results[n].id : n \in 1..Len(results)}

\* task t has just returned from a save that followed, with nothing between, a
\* save of the same content for the same owner
SecondOfTwoSaves(t) ==
    /\ pc[t] = "save_done"
    /\ loc[t].prev.status # "none"
    /\ loc[t].prev.text = loc[t].text
    /\ loc[t].prev.owner = loc[t].owner

\* a row with the content was in the store when the running engine was initialised
CarriedOver(c) == \E i \in RowsWithContent(c) : memories[i].carried

C2_DedupUniqueness ==
    \A i, j \in Ids :
        /\ i # j
        /\ ~Expired(memories[i], now)
        /\ ~Expired(memories[j], now)
        => ~(/\ memories[i].user_id = memories[j].user_id
             /\ memories[i].hash = memories[j].hash)

\* the store has refused a second row for a hash it holds, and holds one
C2_Witness ==
    \E t \in Tasks :
        /\ pc[t] = "save_done"
        /\ loc[t].status = "raise"
        /\ Cardinality(RowsWithHash(loc[t].hash)) = 1

\* C3: two concurrent saves of one (owner, content) that both passed the check
\* of memory_hashes before either had inserted both return, with the same id,
\* and one row holds the content.
C3_RacingSavesAgree ==
    \A t, u \in Tasks :
        /\ t # u
        /\ pc[t] = "save_done" /\ pc[u] = "save_done"
        /\ loc[t].text = loc[u].text /\ loc[t].owner = loc[u].owner
        /\ loc[t].id # NoId /\ loc[u].id # NoId
        /\ loc[t].pre = NoId /\ loc[u].pre = NoId
        => /\ loc[t].status = "ok" /\ loc[u].status = "ok"
           /\ loc[t].ret = loc[u].ret
           /\ loc[t].ret # NoId
           /\ Cardinality(RowsWithContent(loc[t].text)) = 1

\* C4: a save of content that another owner has stored, and this owner has not,
\* returns a new id, of a new row that this owner owns.
C4_DedupScopedPerOwner ==
    \A t \in Tasks :
        /\ pc[t] = "save_done"
        /\ loc[t].pre \in Ids
        /\ memories[loc[t].pre].user_id # loc[t].owner
        => /\ loc[t].status = "ok"
           /\ loc[t].ret # loc[t].pre
           /\ loc[t].ret \in Ids
           /\ memories[loc[t].ret].user_id = loc[t].owner

\* C5: a save of an (owner, content) whose row was in the store when the running
\* engine was initialised returns that row's id, adds no row and does not raise.
C5_SaveSurvivesRestart ==
    \A t \in Tasks :
        /\ pc[t] = "save_done"
        /\ loc[t].pre \in Ids
        /\ memories[loc[t].pre].carried
        /\ memories[loc[t].pre].user_id = loc[t].owner
        => /\ loc[t].status = "ok"
           /\ loc[t].ret = loc[t].pre
           /\ Cardinality(RowsWithContent(loc[t].text)) = 1

\* C6: no entry a search returns is a record whose expires_at is in the past at
\* the time of the call.
C6_ExpiryExclusion ==
    \A t \in Tasks :
        pc[t] = "search_done" =>
            \A n \in 1..Len(loc[t].results) :
                loc[t].results[n].id \in Ids =>
                    ~Expired(memories[loc[t].results[n].id], now)

\* C7: the list a search returns never holds two entries with the same id.
C7_ResultsUniqueById ==
    \A t \in Tasks :
        pc[t] = "search_done" =>
            \A m, n \in 1..Len(loc[t].results) :
                m # n => loc[t].results[m].id # loc[t].results[n].id

\* C8: on every return of a search, the early one included, each stored record
\* whose id is in the returned list has its access_count raised by one per
\* appearance in that list.
C8_AccessCounting ==
    [][\A t \in Tasks :
          pc[t] # "search_done" /\ pc'[t] = "search_done" =>
              \A i \in IdSet(loc'[t].results) \cap Ids :
                  /\ i \in DOMAIN memories'
                  /\ memories'[i].access_count =
                        memories[i].access_count + Occurrences(loc'[t].results, i)]_vars

\* the lists the search of task t, standing before its scan of the store, would
\* return had the cache been empty: the scan fills the whole limit
WithoutCache(t) ==
    {Take(Merge(<<>>, Take(order, loc[t].limit), loc[t].text), loc[t].limit) :
        order \in DbOrders(DbMatches(loc[t].text, loc[t].kind, loc[t].owner))}

\* C9: with no delegate, the ids a search returns with the cache as it is are
\* the ids the same search returns with the cache empty.
C9_CacheStoreEquivalence ==
    \A t \in Tasks :
        pc[t] = "search_update" =>
            \E r \in WithoutCache(t) :
                IdSet(Take(loc[t].results, loc[t].limit)) = IdSet(r)

\* C10: with no delegate, every entry of a search for owner o is a record saved
\* with owner o.
C10_OwnerIsolation ==
    \A t \in Tasks :
        pc[t] = "search_done" =>
            \A n \in 1..Len(loc[t].results) :
                loc[t].results[n].id \in Ids =>
                    memories[loc[t].results[n].id].user_id = loc[t].owner

\* the ids of the entries of a cache partition
CachedIds(d) == {d[n].id : n \in 1..Len(d)}

\* task t's save is at the step that admits its record to a full partition whose
\* least important entry is less important than the record
AdmitsToFull(t) ==
    /\ pc[t] \in {"save_mirror", "save_admit"}
    /\ pc'[t] = "save_done"
    /\ loc'[t].status = "ok"
    /\ loc[t].importance >= importance_threshold
    /\ Len(memory_cache[loc[t].kind]) = max_cache_size
    /\ \E n \in 1..max_cache_size :
          memory_cache[loc[t].kind][n].importance < loc[t].importance

\* C11: when a partition holds max_cache_size entries and a record of higher
\* importance is admitted, one entry is removed, it is the least important one
\* (the oldest cached_at among equals), the record is in the partition afterwards
\* and the partition has the size it had.
C11_EvictionCorrectness ==
    [][\A t \in Tasks :
          AdmitsToFull(t) =>
              LET d == memory_cache[loc[t].kind]
                  e == memory_cache'[loc[t].kind]
                  gone == {n \in 1..Len(d) : d[n].id \notin CachedIds(e)}
              IN  /\ Len(e) = Len(d)
                  /\ loc[t].id \in CachedIds(e)
                  /\ Cardinality(gone) = 1
                  /\ \A n \in gone : \A m \in 1..Len(d) :
                        \/ d[n].importance < d[m].importance
                        \/ /\ d[n].importance = d[m].importance
                           /\ d[n].cached_at <= d[m].cached_at]_vars

\* C12: in every reachable state, with saves and cache loads interleaved, each
\* partition of the cache holds at most max_cache_size entries.  (The eviction
\* and the insertion of one admission are one step: no await lies between them.)
C12_CacheCapacity ==
    \A k \in Kinds : Len(memory_cache[k]) <= max_cache_size

\* C13: on every return of a search the list is in descending order of
\* (relevance_score, importance) and holds at most limit entries.
C13_SearchOrdering ==
    \A t \in Tasks :
        pc[t] = "search_done" =>
            /\ Len(loc[t].results) <= loc[t].limit
            /\ \A n \in 1..(Len(loc[t].results) - 1) :
                  ~KeyLess(loc[t].results[n], loc[t].results[n + 1])

\* C14: update with an id that is not in the store returns false, raises nothing
\* and leaves the store, the hash set and the cache as they were; with an id that
\* is in the store it persists the metadata and the importance given and returns
\* true.
C14_UpdateMissingId ==
    [][\A t \in Tasks :
          pc[t] = "idle" /\ pc'[t] = "update_done" =>
              /\ loc'[t].status = "ok"
              /\ IF loc'[t].target \in Ids
                 THEN /\ loc'[t].answer
                      /\ memories' =
                            [memories EXCEPT
                                ![loc'[t].target].metadata = loc'[t].metadata,
                                ![loc'[t].target].importance = loc'[t].importance]
                 ELSE /\ ~loc'[t].answer
                      /\ UNCHANGED <<memories, memory_hashes, memory_cache>>]_vars

\* C15: for every content and every metadata document the value
\* _calculate_importance returns is between 0 and 1 (0 and 100 hundredths).
C15_ImportanceBounds ==
    \A t \in Tasks :
        pc[t] = "importance_done" =>
            0 <= loc[t].importance /\ loc[t].importance <= 100

\* the clamp has acted: a long goal with a keyword
C15_Witness ==
    \E t \in Tasks :
        /\ pc[t] = "importance_done"
        /\ ImportanceSum(loc[t].text, loc[t].metadata) > 100
        /\ loc[t].importance = 100

\* C16: in every reachable state every row of memories and every cache entry has
\* its importance between 0 and 1, whether computed or supplied by the caller.
C16_StoredImportanceRange ==
    /\ \A i \in Ids : 0 <= memories[i].importance /\ memories[i].importance <= 100
    /\ \A k \in Kinds : \A n \in 1..Len(memory_cache[k]) :
          /\ 0 <= memory_cache[k][n].importance
          /\ memory_cache[k][n].importance <= 100

\* C17: a search never raises, and when the delegate's search raised, the list
\* returned is one the same search returns with use_semantic_search False.
C17_SearchDegrades ==
    \A t \in Tasks :
        /\ pc[t] \in {"search_db", "search_update", "search_done"} =>
              loc[t].status # "raise"
        /\ pc[t] = "search_done" /\ loc[t].failed =>
              loc[t].status = "ok" /\ loc[t].results \in loc[t].expect

\* a search whose delegate raised has returned local hits
C17_Witness ==
    \E t \in Tasks :
        /\ pc[t] = "search_done"
        /\ loc[t].failed
        /\ loc[t].results # <<>>
        /\ loc[t].results \in loc[t].expect

\* C18: a semantic search whose delegate never answers still eventually returns
\* the local hits: the delegate's call cannot block the search forever.
C18_BoundedDelegateWait ==
    \A t \in Tasks :
        (pc[t] = "search_wait") ~>
            (pc[t] = "search_done" /\ loc[t].results \in loc[t].expect)

\* what task t's save has registered outside the table memories
Registered(t) ==
    \/ loc[t].hash \in memory_hashes
    \/ \E k \in Kinds : loc[t].id \in CachedIds(memory_cache[k])
    \/ \E m \in mem0_mappings : m.local = loc[t].id
    \/ \E e \in mem0_store : e.id = Mem0Id(loc[t].id)

\* C19: when the insert of a save fails the call raises, and the hash set, the
\* cache, the delegate and the mappings are as they were before the call: the
\* failing step changes none of them, and nothing of the call was registered
\* before it.
C19_StoreFailureOnSave ==
    /\ [](\A t \in Tasks :
             \/ pc[t] = "save_insert"
             \/ pc[t] = "save_done" /\ loc[t].status = "raise"
             => ~Registered(t))
    /\ [][\A t \in Tasks :
             pc[t] = "save_insert" /\ pc'[t] = "save_done" =>
                 /\ loc'[t].status = "raise"
                 /\ UNCHANGED <<memories, memory_hashes, memory_cache, mem0_store,
                                mem0_mappings>>]_vars

\* the store has refused the row of a save, which raised
C19_Witness ==
    \E t \in Tasks :
        /\ pc[t] = "save_done"
        /\ loc[t].status = "raise"
        /\ loc[t].id # NoId
        /\ UniqueViolated(loc[t].hash)

\* C20: when the delegate's add, or the mapping insert after it, fails in a save
\* of new content, the call returns the new id, the row is in the store, the hash
\* is registered, the record is cached when its importance reaches the threshold,
\* and no mapping exists for the id.
C20_DelegateFailureOnSave ==
    [][\A t \in Tasks :
          mem0_client /\ pc[t] = "save_mirror" /\ pc'[t] = "save_done" =>
              /\ loc'[t].status = "ok"
              /\ loc'[t].ret = loc[t].id
              /\ loc[t].id \in DOMAIN memories'
              /\ loc[t].hash \in memory_hashes'
              /\ loc[t].importance >= importance_threshold =>
                    loc[t].id \in CachedIds(memory_cache'[loc[t].kind])
              /\ ~\E m \in mem0_mappings' : m.local = loc[t].id]_vars

\* a save whose mirror failed has returned its id, and its record is cached
C20_Witness ==
    \E t \in Tasks :
        /\ mem0_client
        /\ pc[t] = "save_done"
        /\ loc[t].status = "ok"
        /\ loc[t].id # NoId
        /\ loc[t].ret = loc[t].id
        /\ ~\E m \in mem0_mappings : m.local = loc[t].id
        /\ loc[t].id \in CachedIds(memory_cache[loc[t].kind])

\* C21: a run of cleanup_expired_memories leaves no row whose expires_at is
\* earlier than the run's time, and every row with no expires_at, or with one
\* that is not in the past, is still present and unchanged.
C21_JanitorDeletesExpired ==
    [][\A t \in Tasks :
          pc[t] = "idle" /\ pc'[t] = "cleanup_clear" =>
              /\ \A i \in DOMAIN memories' : ~Expired(memories'[i], now)
              /\ \A i \in Ids :
                    ~Expired(memories[i], now) =>
                        i \in DOMAIN memories' /\ memories'[i] = memories[i]]_vars

\* a save_memory of task t has begun and has not returned
SaveInFlight(t) == pc[t] \in {"save_lookup", "save_insert", "save_mirror", "save_admit"}

C23_JanitorRebuildsCache ==
    [][\A t \in Tasks :
          pc[t] = "cleanup_reload" /\ pc'[t] = "cleanup_done" =>
              \A k \in Kinds : CachedIds(memory_cache'[k]) \subseteq DOMAIN memories']_vars

\* C24: when the delete of expired records fails in a janitor run, the run's
\* other sub-tasks are still executed: at its end no mapping is left without its
\* row and the hash set has been rebuilt from the rows of memories.
C24_JanitorStepsIndependent ==
    \A t \in Tasks :
        pc[t] = "cleanup_done" /\ loc[t].failed =>
            /\ \A m \in mem0_mappings : m.local \in Ids
            /\ memory_hashes = {memories[i].hash : i \in Ids}

\* a run of cleanup_expired_memories by task t has begun and has not returned
CleanupInProgress(t) == pc[t] \in {"cleanup_clear", "cleanup_reload"}

\* C25: at no time are two runs of cleanup_expired_memories in progress on the
\* engine.
C25_JanitorMutualExclusion ==
    \A t, u \in Tasks : CleanupInProgress(t) /\ CleanupInProgress(u) => t = u

\* C26: a save_memory of content whose live record is in the store, however it
\* interleaves with a run of the janitor, returns that record's id and does not
\* raise.
C26_SaveSafeDuringJanitor ==
    \A t \in Tasks :
        /\ pc[t] = "save_done"
        /\ loc[t].pre \in Ids
        /\ ~Expired(memories[loc[t].pre], now)
        => /\ loc[t].status = "ok"
           /\ loc[t].ret = loc[t].pre

\* the live rows of the owner and kind of task t's search whose content holds
\* its query
OwnMatches(t) ==
    {i \in Ids :
        /\ memories[i].user_id = loc[t].owner
        /\ loc[t].kind = "all" \/ memories[i].memory_type = loc[t].kind
        /\ ~Expired(memories[i], now)
        /\ Contains(memories[i].content, loc[t].text)}

\* C27: with no delegate, a search whose query is a substring of the content of
\* a saved, non-expiring record of its owner and kind returns a list that
\* contains the record's id, when fewer than limit records of that owner and
\* kind match the query.
C27_ReadYourWrites ==
    \A t \in Tasks :
        /\ pc[t] = "search_done"
        /\ ~mem0_client
        /\ Cardinality(OwnMatches(t)) < loc[t].limit
        => \A m \in OwnMatches(t) :
              memories[m].expires_at = NoExpiry => m \in IdSet(loc[t].results)

\* C30: a search_memory call leaves access_count as it was for every record
\* whose id is not in the list it returns, records cut off by the truncation to
\* limit included.
C30_AccessCountFrame ==
    [][\A t \in Tasks :
          pc[t] = "search_update" /\ pc'[t] = "search_done" =>
              \A i \in Ids :
                  i \notin IdSet(loc'[t].results) =>
                      memories'[i].access_count = memories[i].access_count]_vars

\* C28: start_session called with no metadata argument returns a new session
\* id and registers that session as active.
C28_StartSessionWithoutMetadata ==
    \A t \in Tasks :
        /\ pc[t] = "session_done"
        /\ loc[t].op = "start_session"
        /\ ~loc[t].has_meta
        => /\ loc[t].status = "ok"
           /\ loc[t].session \in DOMAIN active_sessions

\* C29: for a registered skill, record_skill_usage returns true and the skill's
\* stored metadata.usage_count is afterwards one higher than before the call;
\* for a skill that is not registered it returns false and no metadata changes.
C29_SkillUsageCounter ==
    [][\A t \in Tasks :
          pc[t] = "idle" /\ pc'[t] = "usage_done" =>
              IF SkillRows(loc'[t].skill) # {}
              THEN /\ loc'[t].answer
                   /\ \A i \in SkillRows(loc'[t].skill) :
                         memories'[i].metadata.usage_count =
                             memories[i].metadata.usage_count + 1
              ELSE /\ ~loc'[t].answer
                   /\ \A i \in Ids : memories'[i].metadata = memories[i].metadata]_vars

\* C31: when the only stored record of the owner and content of a save has
\* expires_at in the past and has not been swept, save_memory does not return
\* that record's id: it returns the id of a live record.
C31_OnlyLiveShortCircuits ==
    \A t \in Tasks :
        /\ pc[t] = "save_done"
        /\ loc[t].pre \in Ids
        /\ memories[loc[t].pre].user_id = loc[t].owner
        /\ Expired(memories[loc[t].pre], now)
        => /\ loc[t].status = "ok"
           /\ loc[t].ret # loc[t].pre
           /\ loc[t].ret \in Ids
           /\ ~Expired(memories[loc[t].ret], now)

\* the LIMIT of the store query of a search that stands before line 518, 0 when
\* line 519 skips the query
DbCap(l) == IF Len(l.results) < l.lim2 THEN l.lim2 - Len(l.results) ELSE 0

\* C32: in a search that did not exit early, when the delegate and the cache
\* together contributed k < limit entries the store scan runs and may add up to
\* limit - k rows.
C32_StoreScanFillsToLimit ==
    \A t \in Tasks :
        pc[t] = "search_db" /\ Len(loc[t].results) < loc[t].limit =>
            DbCap(loc[t]) = loc[t].limit - Len(loc[t].results)

\* C33: right after a save_memory that created a row, the record is in the hot
\* cache partition of its kind if and only if its importance is at least
\* importance_threshold; and in every reachable state every hot cache entry has
\* an importance of at least the threshold.
C33_CacheAdmissionThreshold ==
    /\ [](\A k \in Kinds : \A n \in 1..Len(memory_cache[k]) :
             memory_cache[k][n].importance >= importance_threshold)
    /\ [][\A t \in Tasks :
             /\ pc[t] \in {"save_mirror", "save_admit"}
             /\ pc'[t] = "save_done"
             /\ loc'[t].status = "ok"
             => (loc[t].id \in CachedIds(memory_cache'[loc[t].kind])
                    <=> loc[t].importance >= importance_threshold)]_vars

\* a save has just put its record in the cache while a row below the threshold
\* is stored and not cached
C33_Witness ==
    \E t \in Tasks :
        /\ pc[t] = "save_done"
        /\ loc[t].id # NoId
        /\ loc[t].ret = loc[t].id
        /\ loc[t].id \in CachedIds(memory_cache[loc[t].kind])
        /\ \E j \in Ids :
              /\ memories[j].importance < importance_threshold
              /\ \A k \in Kinds : j \notin CachedIds(memory_cache[k])

\* the sum the sentence writes, in hundredths and in exact arithmetic
StatedImportance(content, metadata) ==
    LET len == IF StrLen(content) > 100 THEN 10 ELSE 0
        type == CASE metadata.type = "preference" -> 30
                  [] metadata.type = "goal" -> 40
                  [] metadata.type = "relationship" -> 20
                  [] OTHER -> 0
        kw == IF HasKeyword(content) THEN 10 ELSE 0
    IN  Min2(100, 50 + len + type + kw)

\* C34: an importance the manager computes itself equals
\* min(1, 0.5 + 0.1 for a content longer than 100 characters + 0.3 / 0.4 / 0.2
\* for the metadata types preference / goal / relationship + 0.1 once for a
\* content holding an importance keyword).
C34_ImportanceFormula ==
    \A t \in Tasks :
        pc[t] = "importance_done" =>
            loc[t].importance = StatedImportance(loc[t].text, loc[t].metadata)

\* C35: every step of save_session_memory that stores a message adds exactly one
\* row to the session message table, under an id no row had, whatever rows the
\* table holds; a call that has returned its id left a row with that id and
\* its session; and only the janitor's delete takes rows out of the table.
C35_SessionMessagesAppendOnly ==
    [][/\ \A t \in Tasks :
             pc[t] = "idle" /\ pc'[t] = "session_append" =>
                 /\ loc'[t].msg \notin {r.id : r \in session_table}
                 /\ \E r \in session_table' :
                       /\ r.id = loc'[t].msg
                       /\ r.session_id = loc'[t].session
                       /\ r.role = loc'[t].role
                       /\ r.content = loc'[t].text
                       /\ r \notin session_table
                       /\ session_table' = session_table \cup {r}
       /\ \A t \in Tasks :
             /\ pc'[t] = "session_done" /\ loc'[t].op = "save_session_memory"
             /\ loc'[t].status = "ok"
             => /\ loc'[t].ret = loc'[t].msg
                /\ Cardinality({r \in session_table' :
                       r.id = loc'[t].msg /\ r.session_id = loc'[t].session}) = 1
       /\ (session_table \ session_table' # {} =>
              \E t \in Tasks : pc[t] = "idle" /\ pc'[t] = "cleanup_clear")]_vars

\* a call has returned the id of a second row with the session, role and content
\* of a row the table held
C35_Witness ==
    \E t \in Tasks :
        /\ pc[t] = "session_done" /\ loc[t].op = "save_session_memory"
        /\ loc[t].status = "ok"
        /\ \E r, q \in session_table :
              /\ r.id = loc[t].msg /\ q.id # r.id
              /\ q.session_id = r.session_id /\ q.role = r.role
              /\ q.content = r.content

\* C36: a search with a kind filter other than "all" returns only entries of
\* that kind, whichever source gave them.
C36_KindPartitionsSearch ==
    \A t \in Tasks :
        pc[t] = "search_done" /\ loc[t].status = "ok" /\ loc[t].kind # "all" =>
            \A n \in 1..Len(loc[t].results) : loc[t].results[n].type = loc[t].kind

\* C37: once the summary task that start_new_session created for a session with
\* buffered messages has run to its end, the store holds a session_summary
\* record with that session's id and its message count.
C37_PreviousSessionSummarised ==
    \A t \in Tasks :
        pc[t] = "session_done" /\ loc[t].op = "session_summary" =>
            \E i \in Ids :
                /\ memories[i].metadata.type = "session_summary"
                /\ memories[i].metadata.session_id = loc[t].session
                /\ memories[i].metadata.message_count = loc[t].count

\* C38: in every reachable state every message of the session buffer was saved
\* with the session id that is current, and the buffer holds no more than its
\* maximum of messages (100 in the source).
C38_BufferOfCurrentSession ==
    /\ \A n \in 1..Len(session_memories) :
          session_memories[n].session_id = current_session_id
    /\ Len(session_memories) <= max_session_buffer

\* the buffer is full and has lost the oldest message of the current session,
\* while a call that stored a message of an earlier session has skipped the
\* buffer
C38_Witness ==
    /\ Len(session_memories) = max_session_buffer
    /\ \E r \in session_table :
          /\ r.session_id = current_session_id
          /\ \A n \in 1..Len(session_memories) : session_memories[n].id # r.id
    /\ \E t \in Tasks :
          /\ pc[t] = "session_done" /\ loc[t].op = "save_session_memory"
          /\ loc[t].session # current_session_id

\* C39: a save that admits its record to a partition holding fewer than
\* max_cache_size entries leaves every record that was cached in the partition
\* and makes the partition one entry longer, whatever the record's metadata.
C39_AdmissionBelowCapacity ==
    [][\A t \in Tasks :
          /\ pc[t] \in {"save_mirror", "save_admit"}
          /\ pc'[t] = "save_done"
          /\ loc'[t].status = "ok"
          /\ loc[t].importance >= importance_threshold
          /\ Len(memory_cache[loc[t].kind]) < max_cache_size
          => /\ CachedIds(memory_cache[loc[t].kind])
                   \subseteq CachedIds(memory_cache'[loc[t].kind])
             /\ Len(memory_cache'[loc[t].kind]) =
                   Len(memory_cache[loc[t].kind]) + 1]_vars

====
